---- MODULE Spec2Model ----
(***************************************************************************)
(* State-machine model of preprocessing/BatchCt.py: the packed buffer of   *)
(* CT scans (BatchCt), its bounds table, the two identifier maps, the      *)
(* history log and the thread-pool transforms that act on them.            *)
(*                                                                         *)
(* Rows and positions are 0-based as in the Python code; TLA+ sequences    *)
(* are 1-based, so row r of the buffer is data.rows[r + 1].  One buffer    *)
(* row (an X x Y slice) is abstracted to one integer voxel value; the X    *)
(* and Y extents are kept as the buffer's shape.                           *)
(***************************************************************************)
EXTENDS Integers, Sequences, FiniteSets, TLC

\* ---------------------------------------------------------------- bounds
MaxPatients == 2
MaxSlices == 2
MaxSlicesNew == 2
MaxThreads == 2
MaxHistory == 2
MaxIterators == 2
MaxHistoryIO == 3

\* ------------------------------------------------------------- constants
AIR_HU == -2000

PatientIds == <<"p1", "p2", "p3", "p4">>
UnknownId == "zz"

\* shape (X, Y) of the slices the decoders deliver
DecodedXY == <<2, 2>>
\* (X, Y) targets offered to resize
NewXY == {<<3, 1>>}
Orders == {3}
ErosionRadii == {2}
XIPSteps == {1}
XIPDepths == {1, 2}
XIPFuncs == {"max", "min"}
BTypes == {"dicom", "blosc", "raw", "png"}

\* ----------------------------------------------------------------- state
VARIABLES
    index,                  \* self.index: the identifiers, fixed at construction
    iters,                  \* the BatchIterator objects made by iter(self)
    data,                   \* self._data
    data_id,                \* which array object self._data is bound to
    lower_bounds,           \* self._lower_bounds
    upper_bounds,           \* self._upper_bounds
    patient_index_path,     \* self._patient_index_path
    patient_index_number,   \* self._patient_index_number
    crop_centers,           \* self._crop_centers
    crop_sizes,             \* self._crop_sizes
    history,                \* self.history
    disk,                   \* per identifier: the directory dump_path/identifier
    call,                   \* the public operation in progress ("idle": none)
    tasks,                  \* the per-patient tasks of the operation's thread pool
    res,                    \* result_stacked, the output buffer the tasks share
    writers,                \* per row of res: the tasks that have written it
    pre,                    \* the store as it was when the last operation was called
    ret                     \* outcome of the last operation that returned or raised

store == [data |-> data, base |-> data_id, lower |-> lower_bounds, upper |-> upper_bounds,
          path |-> patient_index_path, number |-> patient_index_number,
          history |-> history, disk |-> disk]

vars == <<index, iters, data, data_id, lower_bounds, upper_bounds, patient_index_path,
          patient_index_number, crop_centers, crop_sizes, history, disk, call,
          tasks, res, writers, pre, ret>>

\* --------------------------------------------------------------- helpers
NoData == [none |-> TRUE, rows |-> <<>>, x |-> 0, y |-> 0]
Array(rows, x, y) == [none |-> FALSE, rows |-> rows, x |-> x, y |-> y]
EmptyMap == [p \in {} |-> 0]
\* the identity of an array object made now (np.concatenate, np.zeros, a * b):
\* none of the identities self._data has had
NewArray == data_id + 1
Idle == [op |-> "idle"]

RECURSIVE SumSeq(_)
SumSeq(s) == IF s = <<>> THEN 0 ELSE s[1] + SumSeq(Tail(s))

\* np.cumsum
Cumsum(s) == [i \in 1..Len(s) |-> SumSeq(SubSeq(s, 1, i))]

\* np.insert(u, 0, 0)[1:]: the first entry dropped instead of the last
InsertZeroKeepLast(u) == [i \in 1..Len(u) |-> u[i]]

\* np.insert(u, 0, 0)[:-1]
InsertZeroDropLast(u) == [i \in 1..Len(u) |-> IF i = 1 THEN 0 ELSE u[i - 1]]

\* np.concatenate(list_of_arrs, axis=0) on the row sequences
RECURSIVE Concatenate(_)
Concatenate(list) == IF list = <<>> THEN <<>> ELSE list[1] \o Concatenate(Tail(list))

\* a[lower:upper] for 0 <= lower
Slice(rows, lower, upper) == SubSeq(rows, lower + 1, upper)

\* len(self)
len == Len(lower_bounds)

\* position (1-based) of an identifier in PatientIds
IdNum(p) == CHOOSE i \in 1..Len(PatientIds) : PatientIds[i] = p

IndexSet == {index[i] : i \in 1..Len(index)}

\* the outcome record of an operation
Ok(op, args, value) == [op |-> op, args |-> args, status |-> "ok", exc |-> "none",
                        value |-> value]
Raise(op, args, exc) == [op |-> op, args |-> args, status |-> "raise", exc |-> exc,
                         value |-> <<>>]
Self == <<>>
\* the operation has been called and has not returned yet
Called(op, args) == [op |-> op, args |-> args, status |-> "called", exc |-> "none",
                     value |-> <<>>]

\* the entry put in front of the entries already logged
LoggedAtFront(h, method, params) == <<[method |-> method, params |-> params]>> \o h

\* info = dict(); info['method'] = ...; info['params'] = ...;
\* self.history.append(info)
Logged(h, method, params) == Append(h, [method |-> method, params |-> params])

\* an operation that starts no thread pool
NoPool == tasks' = <<>> /\ res' = <<>> /\ writers' = <<>>

\* --------------------------------------------------------------- decoders
\* What a decoder returns for one patient's storage: n slices whose voxel
\* values identify the patient and the slice.
Decode(path, n) == [k \in 1..n |-> 10 * IdNum(path.id) + k]

\* a voxel value as the two bytes of a 16-bit integer, low byte first (the
\* values of the model fit 16 bits), and back
ToBytes(v) == LET u == v % 65536 IN <<u % 256, u \div 256>>
FromBytes(b) == LET u == b[1] + 256 * b[2] IN IF u >= 32768 THEN u - 65536 ELSE u

\* blosc.pack_array(a, cname='zstd', clevel=1): the shape and the bytes
pack_array(rows, x, y) ==
    [cname |-> "zstd", shape |-> <<Len(rows), x, y>>,
     packed |-> [r \in 1..Len(rows) |-> ToBytes(rows[r])]]

\* blosc.unpack_array(packed)
unpack_array(content) ==
    [rows |-> [r \in 1..content.shape[1] |-> FromBytes(content.packed[r])],
     x |-> content.shape[2], y |-> content.shape[3]]

\* a scan that could not be read
NoScan == [ok |-> FALSE, rows |-> <<>>, x |-> 0, y |-> 0]

\* unpack_blosc(path) of the file data.blk that dump writes for path.id
unpack_blosc(path) ==
    LET unit == disk[path.id]
        blk == {f \in unit.files : f.name = "data.blk"}
    IN  IF unit.exists /\ blk # {}
        THEN LET a == unpack_array((CHOOSE f \in blk : TRUE).content)
             IN  [ok |-> TRUE, rows |-> a.rows, x |-> a.x, y |-> a.y]
        ELSE NoScan

\* the scan one decoder call reads for path: for the storage "in", n slices
\* or a failure (n < 0); a file written by dump is read by the blosc decoder
\* only
ReadScan(path, btype, n) ==
    IF path.root = "in"
    THEN IF n < 0 THEN NoScan
         ELSE [ok |-> TRUE, rows |-> Decode(path, n),
               x |-> DecodedXY[1], y |-> DecodedXY[2]]
    ELSE IF btype = "blosc" THEN unpack_blosc(path) ELSE NoScan

\* the paths of the files data.blk under dump_path, one per identifier
DumpedPaths == [p \in IndexSet |-> [root |-> "out", id |-> p]]

\* the all_patients_paths dictionaries offered to load
PathMaps ==
    LET full == [p \in IndexSet |-> [root |-> "in", id |-> p]]
    IN  {full, [p \in IndexSet \ {index[Len(index)]} |-> full[p]]}

\* the dictionary with a path for every identifier
FullPaths == CHOOSE m \in PathMaps : DOMAIN m = IndexSet

\* ------------------------------------------------------------------ load
\* positions counted from 1 instead of 0
IndexNumberFromOne(ix) == [p \in {ix[i] : i \in 1..Len(ix)} |->
                            (CHOOSE i \in 1..Len(ix) : ix[i] = p)]

\* self._patient_index_number = {self.index[i]: i for i in range(len(self.index))}
IndexNumberOf(ix) == [p \in {ix[i] : i \in 1..Len(ix)} |->
                        (CHOOSE i \in 1..Len(ix) : ix[i] = p) - 1]

\* list_of_lengths = [len(a) for a in list_of_arrs]
ListOfLengths(list_of_arrs) == [i \in 1..Len(list_of_arrs) |-> Len(list_of_arrs[i])]

\* load(all_patients_paths, btype); dec[i] is what the decoder does for the
\* i-th patient: -1 it raises, n >= 0 it returns a scan of n slices.
Load(all_patients_paths, btype, dec) ==
    /\ call.op = "idle"
    /\ pre' = store
    /\ NoPool
    /\ UNCHANGED <<index, iters, crop_centers, crop_sizes, disk, call>>
    /\ LET args == [btype |-> btype] IN
       IF \E i \in 1..Len(index) : index[i] \notin DOMAIN all_patients_paths
       THEN \* the dict comprehension raises before anything is assigned
            /\ ret' = Raise("load", args, "KeyError")
            /\ UNCHANGED <<data, data_id, lower_bounds, upper_bounds, patient_index_path,
                           patient_index_number, history>>
       ELSE /\ patient_index_path' = [p \in IndexSet |-> all_patients_paths[p]]
            /\ patient_index_number' = IndexNumberOf(index)
            /\ IF btype \notin {"dicom", "blosc", "raw"}
               THEN /\ ret' = Raise("load", args, "TypeError")
                    /\ UNCHANGED <<data, data_id, lower_bounds, upper_bounds, history>>
               ELSE LET scans == [i \in 1..Len(index) |->
                                ReadScan(patient_index_path'[index[i]], btype, dec[i])]
                        list_of_arrs == [i \in 1..Len(index) |-> scans[i].rows]
                        ub == Cumsum(ListOfLengths(list_of_arrs))
                    IN
                    IF \E i \in 1..Len(index) : ~scans[i].ok
                    THEN /\ ret' = Raise("load", args, "IOError")
                         /\ UNCHANGED <<data, data_id, lower_bounds, upper_bounds,
                                        history>>
                    ELSE IF \E i \in 1..Len(index) :
                               scans[i].x # scans[1].x \/ scans[i].y # scans[1].y
                    THEN \* np.concatenate of scans of different (X, Y)
                         /\ ret' = Raise("load", args, "ValueError")
                         /\ UNCHANGED <<data, data_id, lower_bounds, upper_bounds,
                                        history>>
                    ELSE
                        /\ data' = Array(Concatenate(list_of_arrs),
                                         scans[1].x, scans[1].y)
                        /\ data_id' = NewArray
                        /\ upper_bounds' = ub
                        /\ lower_bounds' = InsertZeroDropLast(ub)
                        /\ history' = Logged(history, "load", <<>>)
                        /\ ret' = Ok("load", args, Self)

\* ----------------------------------------------------------- __getitem__
IntKey(i) == [kind |-> "int", v |-> i, s |-> ""]
StrKey(s) == [kind |-> "str", v |-> 0, s |-> s]
OtherKey(k) == [kind |-> k, v |-> 0, s |-> ""]
\* True and False: bool is a subclass of int, with the values 1 and 0
BoolKey(b) == [kind |-> "bool", v |-> IF b THEN 1 ELSE 0, s |-> ""]

\* isinstance(index, int)
IsInstanceInt(key) == key.kind \in {"int", "bool"}

Keys == {IntKey(i) : i \in (0 - 1)..MaxPatients}
        \cup {StrKey(PatientIds[i]) : i \in 1..MaxPatients}
        \cup {StrKey(UnknownId)}
        \cup {OtherKey("float"), OtherKey("NoneType"), BoolKey(TRUE)}

\* the test without its lower limit
InRangeNoLowerLimit(i, n) == i < n

\* index < self._lower_bounds.shape[0] and index >= 0
InRange(i, n) == i < n /\ i >= 0

\* a numpy 1-d array read at integer position i: negative positions count
\* from the end, positions outside [-n, n) raise IndexError
NpHas(a, i) == i < Len(a) /\ i >= 0 - Len(a)
NpAt(a, i) == IF i >= 0 THEN a[i + 1] ELSE a[Len(a) + i + 1]

\* self._data[lower:upper, :, :]
View(lower, upper) == [base |-> data_id, lower |-> lower, upper |-> upper,
                       rows |-> Slice(data.rows, lower, upper)]

\* the value or exception of self[key]
GetItemOutcome(key) ==
    LET args == [key |-> key] IN
    IF IsInstanceInt(key)
    THEN IF InRange(key.v, Len(lower_bounds))
         THEN IF NpHas(lower_bounds, key.v) /\ ~data.none
              THEN Ok("getitem", args, View(NpAt(lower_bounds, key.v),
                                            NpAt(upper_bounds, key.v)))
              ELSE Raise("getitem", args,
                         IF NpHas(lower_bounds, key.v) THEN "TypeError" ELSE "IndexError")
         ELSE Raise("getitem", args, "IndexError")
    ELSE IF key.kind = "str"
    THEN IF key.s \notin DOMAIN patient_index_number
         THEN Raise("getitem", args, "KeyError")
         ELSE LET n == patient_index_number[key.s] IN
              IF ~NpHas(lower_bounds, n)
              THEN Raise("getitem", args, "IndexError")
              ELSE IF data.none
              THEN Raise("getitem", args, "TypeError")
              ELSE Ok("getitem", args, View(NpAt(lower_bounds, n),
                                            NpAt(upper_bounds, n)))
    ELSE Raise("getitem", args, "ValueError")

GetItem(key) ==
    /\ call.op = "idle"
    /\ pre' = store
    /\ ret' = GetItemOutcome(key)
    /\ NoPool
    /\ UNCHANGED <<index, iters, data_id, data, lower_bounds, upper_bounds, patient_index_path,
                   patient_index_number, crop_centers, crop_sizes, history, disk, call>>

\* ----------------------------------------------------------- BatchIterator
\* BatchIterator.__init__(batch): the iterator refers to the store itself
BatchIterator == [patient_index |-> 0]

\* iter(self)
Iter ==
    /\ call.op = "idle"
    /\ Len(iters) < MaxIterators
    /\ pre' = store
    /\ iters' = Append(iters, BatchIterator)
    /\ ret' = Ok("iter", <<>>, Len(iters'))
    /\ NoPool
    /\ UNCHANGED <<index, data, data_id, lower_bounds, upper_bounds,
                   patient_index_path, patient_index_number, crop_centers,
                   crop_sizes, history, disk, call>>

\* one cursor for all the iterators of the store
AdvanceShared(its, it) ==
    [j \in 1..Len(its) |-> [patient_index |-> its[j].patient_index + 1]]

\* self._patient_index += 1
Advance(its, it) == [its EXCEPT ![it].patient_index = @ + 1]

\* next(it) on the it-th iterator made
IterNext(it) ==
    /\ call.op = "idle"
    /\ it \in 1..Len(iters)
    /\ pre' = store
    /\ LET args == [it |-> it]
           patient_index == iters[it].patient_index
       IN  IF patient_index >= Len(lower_bounds)
           THEN /\ ret' = Raise("next", args, "StopIteration")
                /\ UNCHANGED iters
           ELSE /\ ret' = Ok("next", args, View(lower_bounds[patient_index + 1],
                                                upper_bounds[patient_index + 1]))
                /\ iters' = Advance(iters, it)
    /\ NoPool
    /\ UNCHANGED <<index, data, data_id, lower_bounds, upper_bounds,
                   patient_index_path, patient_index_number, crop_centers,
                   crop_sizes, history, disk, call>>

\* ----------------------------------------------------- ThreadPoolExecutor
Pending == [st |-> "pending", w |-> 0, out |-> <<>>]

\* executor.submit / executor.map of one task per entry of the args list
Submit(targs) == [i \in 1..Len(targs) |-> Pending]

Running(ts) == {i \in 1..Len(ts) : ts[i].st = "running"}
Failed(ts) == {i \in 1..Len(ts) : ts[i].st = "failed"}

\* a pool that is left without waiting: shutdown(wait=False)
NotJoined(ts) == TRUE

\* leaving the "with ThreadPoolExecutor(...)" block: shutdown(wait=True)
Joined(ts) == \A i \in 1..Len(ts) : ts[i].st \in {"done", "failed"}

\* np.zeros with n rows
Zeros(n) == [r \in 1..n |-> 0]

\* the pool's work queue is first-in first-out and runs at most
\* max_workers tasks at a time
TaskStart(i) ==
    /\ call.op # "idle"
    /\ i \in 1..Len(tasks)
    /\ tasks[i].st = "pending"
    /\ \A j \in 1..(i - 1) : tasks[j].st # "pending"
    /\ Cardinality(Running(tasks)) < call.num_threads
    /\ tasks' = [tasks EXCEPT ![i].st = "running"]
    /\ UNCHANGED <<index, iters, data_id, data, lower_bounds, upper_bounds, patient_index_path,
                   patient_index_number, crop_centers, crop_sizes, history, disk, call,
                   res, writers, pre, ret>>

\* a task raises: the exception is kept in its future
TaskFail(i) ==
    /\ call.op # "idle"
    /\ i \in 1..Len(tasks)
    /\ tasks[i].st = "running"
    /\ tasks' = [tasks EXCEPT ![i].st = "failed"]
    /\ UNCHANGED <<index, iters, data_id, data, lower_bounds, upper_bounds, patient_index_path,
                   patient_index_number, crop_centers, crop_sizes, history, disk, call,
                   res, writers, pre, ret>>

\* ------------------------------------------- per-patient numeric routines
\* resize_patient_numba: row k (0-based) of the patient's scan resampled to
\* zn slices
Resample(slab, zn, k) == slab[((k * Len(slab)) \div zn) + 1]

\* get_filter_patient: the lung mask of one row; a larger erosion radius
\* gives a smaller mask
LungMask(v, erosion_radius) == IF v % 10 >= erosion_radius THEN 1 ELSE 0

\* the patient's scan a task reads: chunk[start_from:end_from]
TaskSlab(a) == Slice(data.rows, a.start_from, a.end_from)

\* how many rows of res a task writes, from row start_to on
TaskRows(a) ==
    IF call.fn = "resize_patient_numba" THEN call.args.num_slices_new
    ELSE a.end_from - a.start_from

\* the value a task writes to its w-th row
TaskValue(a, w) ==
    IF call.fn = "resize_patient_numba"
    THEN Resample(TaskSlab(a), call.args.num_slices_new, w)
    ELSE LungMask(TaskSlab(a)[w + 1], call.args.erosion_radius)

\* one step of a resize_patient_numba or get_filter_patient task: it writes
\* its next row of res, or finishes.  A scan without slices has nothing to
\* resample from: such a task can only raise (TaskFail).
TaskWrite(i) ==
    /\ call.op # "idle"
    /\ call.fn \in {"resize_patient_numba", "get_filter_patient"}
    /\ i \in 1..Len(tasks)
    /\ tasks[i].st = "running"
    /\ LET a == call.targs[i]
           n == TaskRows(a)
           w == tasks[i].w
           r == a.start_to + w + 1
       IN  IF w < n
           THEN /\ Len(TaskSlab(a)) > 0
                /\ r \in 1..Len(res)
                /\ res' = [res EXCEPT ![r] = TaskValue(a, w)]
                /\ writers' = [writers EXCEPT ![r] = @ \cup {i}]
                /\ tasks' = [tasks EXCEPT ![i].w = w + 1,
                                          ![i].st = IF w + 1 = n THEN "done"
                                                    ELSE "running"]
           ELSE /\ tasks' = [tasks EXCEPT ![i].st = "done"]
                /\ UNCHANGED <<res, writers>>
    /\ UNCHANGED <<index, iters, data_id, data, lower_bounds, upper_bounds, patient_index_path,
                   patient_index_number, crop_centers, crop_sizes, history, disk, call,
                   pre, ret>>

\* ---------------------------------------------------------------- resize
\* 'start_to': num_pat
ResizeStartToUnscaled(num_pat, num_slices_new) == num_pat

\* 'start_to' counted from the last patient
ResizeStartToReversed(num_pat, num_slices_new) ==
    (len - 1 - num_pat) * num_slices_new

\* 'start_to': num_pat * num_slices_new
ResizeStartTo(num_pat, num_slices_new) == num_pat * num_slices_new

\* the args list of resize, one dict per patient
ResizeArgs(num_slices_new) ==
    [i \in 1..len |-> [start_from |-> lower_bounds[i],
                       end_from |-> upper_bounds[i],
                       start_to |-> ResizeStartTo(i - 1, num_slices_new)]]

\* np.arange(cur_pat_num) + num_slices_new
ResizedLowerShifted(cur_pat_num, num_slices_new) ==
    [i \in 1..cur_pat_num |-> (i - 1) + num_slices_new]

\* np.arange(cur_pat_num) * num_slices_new
ResizedLower(cur_pat_num, num_slices_new) ==
    [i \in 1..cur_pat_num |-> (i - 1) * num_slices_new]

\* np.arange(1, cur_pat_num + 1) * num_slices_new
ResizedUpper(cur_pat_num, num_slices_new) ==
    [i \in 1..cur_pat_num |-> i * num_slices_new]

\* resize up to the dispatch of its tasks
ResizeBegin(num_slices_new, xy, num_threads, order) ==
    /\ call.op = "idle"
    /\ pre' = store
    /\ res' = Zeros(len * num_slices_new)
    /\ writers' = [r \in 1..(len * num_slices_new) |-> {}]
    /\ call' = [op |-> "resize", fn |-> "resize_patient_numba",
                num_threads |-> num_threads,
                targs |-> ResizeArgs(num_slices_new),
                args |-> [num_slices_new |-> num_slices_new,
                          num_x_new |-> xy[1], num_y_new |-> xy[2],
                          num_threads |-> num_threads, order |-> order]]
    /\ tasks' = Submit(ResizeArgs(num_slices_new))
    /\ ret' = Called("resize", call'.args)
    /\ UNCHANGED <<index, iters, data_id, data, lower_bounds, upper_bounds, patient_index_path,
                   patient_index_number, crop_centers, crop_sizes, history, disk>>

\* resize from the end of the "with" block to its return
ResizeEnd ==
    /\ call.op = "resize"
    /\ Joined(tasks)
    /\ history' = Logged(history, "resize", call.args)
    /\ data' = Array(res, call.args.num_x_new, call.args.num_y_new)
    /\ data_id' = NewArray
    /\ lower_bounds' = ResizedLower(len, call.args.num_slices_new)
    /\ upper_bounds' = ResizedUpper(len, call.args.num_slices_new)
    /\ ret' = Ok("resize", call.args, Self)
    /\ call' = Idle
    /\ UNCHANGED <<index, iters, patient_index_path, patient_index_number,
                   crop_centers, crop_sizes, disk, tasks, res, writers, pre>>

\* ---------------------------------------------------- get_filter, segment
\* 'start_to': self._lower_bounds[num_pat]
FilterStartTo(num_pat) == lower_bounds[num_pat + 1]

\* the args list of get_filter, one dict per patient
FilterArgs ==
    [i \in 1..len |-> [start_from |-> lower_bounds[i],
                       end_from |-> upper_bounds[i],
                       start_to |-> FilterStartTo(i - 1)]]

\* get_filter up to the dispatch of its tasks, called as op
FilterDispatch(op, erosion_radius, num_threads) ==
    /\ pre' = store
    /\ res' = Zeros(Len(data.rows))
    /\ writers' = [r \in 1..Len(data.rows) |-> {}]
    /\ call' = [op |-> op, fn |-> "get_filter_patient",
                num_threads |-> num_threads,
                targs |-> FilterArgs,
                args |-> [erosion_radius |-> erosion_radius,
                          num_threads |-> num_threads]]
    /\ tasks' = Submit(FilterArgs)
    /\ ret' = Called(op, call'.args)
    /\ UNCHANGED <<index, iters, data_id, data, lower_bounds, upper_bounds, patient_index_path,
                   patient_index_number, crop_centers, crop_sizes, history, disk>>

GetFilterBegin(erosion_radius, num_threads) ==
    /\ call.op = "idle"
    /\ FilterDispatch("get_filter", erosion_radius, num_threads)

\* the mask put into self._data itself instead of a result of its own
GetFilterEndInPlace ==
    /\ call.op = "get_filter"
    /\ Joined(tasks)
    /\ data' = [data EXCEPT !.rows = res]
    /\ ret' = Ok("get_filter", call.args, [rows |-> res])
    /\ call' = Idle
    /\ UNCHANGED <<index, iters, data_id, lower_bounds, upper_bounds, patient_index_path,
                   patient_index_number, crop_centers, crop_sizes, history, disk, tasks,
                   res, writers, pre>>

\* get_filter returns result_stacked
GetFilterEnd ==
    /\ call.op = "get_filter"
    /\ Joined(tasks)
    /\ ret' = Ok("get_filter", call.args, [rows |-> res])
    /\ call' = Idle
    /\ UNCHANGED <<index, iters, data_id, data, lower_bounds, upper_bounds, patient_index_path,
                   patient_index_number, crop_centers, crop_sizes, history, disk, tasks,
                   res, writers, pre>>

SegmentBegin(erosion_radius, num_threads) ==
    /\ call.op = "idle"
    /\ FilterDispatch("segment", erosion_radius, num_threads)

\* the filter added without being inverted: lungs * -2000
SegmentedMaskNotInverted(rows, lungs) ==
    [r \in 1..Len(rows) |-> rows[r] * lungs[r] + lungs[r] * AIR_HU]

\* self._data * lungs + (1 - lungs) * -2000, row by row
Segmented(rows, lungs) ==
    [r \in 1..Len(rows) |-> rows[r] * lungs[r] + (1 - lungs[r]) * AIR_HU]

\* segment after its get_filter call has returned
SegmentEnd ==
    /\ call.op = "segment"
    /\ Joined(tasks)
    /\ call' = Idle
    /\ IF data.none
       THEN \* None * lungs
            /\ ret' = Raise("segment", call.args, "TypeError")
            /\ UNCHANGED <<data, data_id, history>>
       ELSE \* self._data = self._data * lungs binds the attribute to the
            \* product, a new array; the += that follows works on that array
            /\ data' = [data EXCEPT !.rows = Segmented(data.rows, res)]
            /\ data_id' = NewArray
            /\ history' = Logged(history, "segmentation", call.args)
            /\ ret' = Ok("segment", call.args, Self)
    /\ UNCHANGED <<index, iters, lower_bounds, upper_bounds, patient_index_path,
                   patient_index_number, crop_centers, crop_sizes, disk, tasks,
                   res, writers, pre>>

\* ------------------------------------------ tasks that return their result
Min(a, b) == IF a < b THEN a ELSE b

RECURSIVE Reduce(_, _)
Reduce(func, rows) ==
    IF Len(rows) = 1 THEN rows[1]
    ELSE LET m == Reduce(func, Tail(rows)) IN
         IF func = "max" THEN (IF rows[1] > m THEN rows[1] ELSE m)
         ELSE (IF rows[1] < m THEN rows[1] ELSE m)

\* image_XIP: the number of window positions of a scan of n rows, one when
\* the scan is shorter than the window
XIPLength(n, step, depth) == IF n < depth THEN 1 ELSE ((n - depth) \div step) + 1

\* image_XIP (axial): every window of depth rows, taken every step rows,
\* reduced to one row
XIP(slab, step, depth, func) ==
    [j \in 1..XIPLength(Len(slab), step, depth) |->
        Reduce(func, SubSeq(slab, (j - 1) * step + 1,
                            Min((j - 1) * step + depth, Len(slab))))]

\* return_black_border_array: per axis (first corner, size, center) of the
\* box around the patient's scan
Rbba(slab) == << <<0, Len(slab), Len(slab) \div 2>>,
                 <<0, data.x, data.x \div 2>>,
                 <<0, data.y, data.y \div 2>> >>

\* a task of make_XIP or of _crop_params_patients runs and returns
TaskCompute(i) ==
    /\ call.op # "idle"
    /\ call.fn \in {"XIP", "rbba"}
    /\ i \in 1..Len(tasks)
    /\ tasks[i].st = "running"
    /\ LET slab == TaskSlab(call.targs[i]) IN
       /\ Len(slab) > 0
       /\ tasks' = [tasks EXCEPT ![i].st = "done",
                                 ![i].out = IF call.fn = "XIP"
                                            THEN XIP(slab, call.args.step,
                                                     call.args.depth, call.args.func)
                                            ELSE Rbba(slab)]
    /\ UNCHANGED <<index, iters, data_id, data, lower_bounds, upper_bounds, patient_index_path,
                   patient_index_number, crop_centers, crop_sizes, history, disk,
                   call, res, writers, pre, ret>>

\* -------------------------------------------------------------- make_XIP
\* args_list: one dict per (l, u) of zip(self._lower_bounds, self._upper_bounds)
XIPArgs == [i \in 1..len |-> [start_from |-> lower_bounds[i],
                              end_from |-> upper_bounds[i], start_to |-> 0]]

MakeXIPBegin(step, depth, func, num_threads) ==
    /\ call.op = "idle"
    /\ pre' = store
    /\ call' = [op |-> "make_XIP", fn |-> "XIP", num_threads |-> num_threads,
                targs |-> XIPArgs,
                args |-> [step |-> step, depth |-> depth, func |-> func,
                          num_threads |-> num_threads]]
    /\ tasks' = Submit(XIPArgs)
    /\ res' = <<>>
    /\ writers' = <<>>
    /\ ret' = Called("make_XIP", call'.args)
    /\ UNCHANGED <<index, iters, data_id, data, lower_bounds, upper_bounds, patient_index_path,
                   patient_index_number, crop_centers, crop_sizes, history, disk>>

\* the results in the reverse of the order of args_list
ResultsReversed(ts) == [i \in 1..Len(ts) |-> ts[Len(ts) + 1 - i].out]

\* mip_patients = list(executor.map(...)): the results in the order of args_list
Results(ts) == [i \in 1..Len(ts) |-> ts[i].out]

\* make_XIP from list(executor.map(...)) to its return: the new Batch
MakeXIPEnd ==
    /\ call.op = "make_XIP"
    /\ Joined(tasks)
    /\ call' = Idle
    /\ ret' = IF Failed(tasks) # {} THEN Raise("make_XIP", call.args, "TaskError")
              ELSE IF Len(tasks) = 0 THEN Raise("make_XIP", call.args, "ValueError")
              ELSE LET mip_patients == Results(tasks)
                       ub == Cumsum(ListOfLengths(mip_patients))
                   IN  Ok("make_XIP", call.args,
                          [rows |-> Concatenate(mip_patients),
                           lower |-> InsertZeroDropLast(ub), upper |-> ub,
                           history |-> history])
    /\ UNCHANGED <<index, iters, data_id, data, lower_bounds, upper_bounds, patient_index_path,
                   patient_index_number, crop_centers, crop_sizes, history, disk,
                   tasks, res, writers, pre>>

\* ------------------------------------------------ crop_centers, crop_sizes
\* bool(a) of a numpy array of per-patient rows: "false" when it has no
\* element, an error when it has more than one
Truth(a) ==
    LET size == SumSeq([i \in 1..Len(a) |-> Len(a[i])]) IN
    IF size = 0 THEN "false"
    ELSE IF size = 1 THEN (IF a[1][1] = 0 THEN "false" ELSE "true")
    ELSE "ValueError"

\* one view per patient, as BatchIterator yields them
CropArgs == [i \in 1..len |-> [start_from |-> lower_bounds[i],
                               end_from |-> upper_bounds[i], start_to |-> 0]]

\* the property crop_centers (which = "crop_centers") or crop_sizes up to the
\* dispatch of the tasks of _crop_params_patients
CropGet(which) ==
    /\ call.op = "idle"
    /\ pre' = store
    /\ LET cached == IF which = "crop_centers" THEN crop_centers ELSE crop_sizes
           t == Truth(cached)
       IN  IF t = "false"
           THEN /\ call' = [op |-> which, fn |-> "rbba", num_threads |-> 8,
                            targs |-> CropArgs, args |-> <<>>]
                /\ tasks' = Submit(CropArgs)
                /\ res' = <<>>
                /\ writers' = <<>>
                /\ ret' = Called(which, <<>>)
           ELSE /\ ret' = IF t = "true" THEN Ok(which, <<>>, cached)
                          ELSE Raise(which, <<>>, "ValueError")
                /\ NoPool
                /\ UNCHANGED call
    /\ UNCHANGED <<index, iters, data_id, data, lower_bounds, upper_bounds, patient_index_path,
                   patient_index_number, crop_centers, crop_sizes, history, disk>>

\* crop_array[:, :, 2]
Centers(crop_array) ==
    [i \in 1..Len(crop_array) |->
        [a \in 1..Len(crop_array[i]) |-> crop_array[i][a][3]]]

\* crop_array[:, :, :2]
Sizes(crop_array) ==
    [i \in 1..Len(crop_array) |->
        [a \in 1..Len(crop_array[i]) |-> SubSeq(crop_array[i][a], 1, 2)]]

\* _crop_params_patients from the t.result() calls on, and the property's return
CropEnd ==
    /\ call.op \in {"crop_centers", "crop_sizes"}
    /\ Joined(tasks)
    /\ call' = Idle
    /\ IF Failed(tasks) # {}
       THEN /\ ret' = Raise(call.op, <<>>, "TaskError")
            /\ UNCHANGED <<crop_centers, crop_sizes>>
       ELSE IF Len(tasks) = 0
       THEN \* np.array([])[:, :, 2]
            /\ ret' = Raise(call.op, <<>>, "IndexError")
            /\ UNCHANGED <<crop_centers, crop_sizes>>
       ELSE /\ crop_centers' = Centers(Results(tasks))
            /\ crop_sizes' = Sizes(Results(tasks))
            /\ ret' = Ok(call.op, <<>>, IF call.op = "crop_centers"
                                        THEN crop_centers' ELSE crop_sizes')
    /\ UNCHANGED <<index, iters, data_id, data, lower_bounds, upper_bounds, patient_index_path,
                   patient_index_number, history, disk, tasks, res, writers, pre>>

\* ------------------------------------------------------------------ dump
\* the last slice left out of what is packed
PackArrayShort(view) ==
    pack_array(SubSeq(view.rows, 1, Len(view.rows) - 1), data.x, data.y)

\* packed = blosc.pack_array(pat_data, cname='zstd', clevel=1)
PackArray(view) == pack_array(view.rows, data.x, data.y)

NoUnit == [exists |-> FALSE, files |-> {}]

\* data.blk written into the directory as it is, beside what it holds
WriteUnitKept(unit, packed) ==
    [exists |-> TRUE,
     files |-> {f \in unit.files : f.name # "data.blk"}
                  \cup {[name |-> "data.blk", content |-> packed]}]

\* rmtree if the directory exists, makedirs, write data.blk
WriteUnit(unit, packed) ==
    [exists |-> TRUE, files |-> {[name |-> "data.blk", content |-> packed]}]

\* a directory left by an earlier run
StaleUnit == [exists |-> TRUE,
              files |-> {[name |-> "old.blk", content |-> <<>>]}]

\* the calls of dump on the storage that can fail for one patient
DumpCalls == {"rmtree", "makedirs", "open"}

\* the directory of a patient when the call `at` has raised OSError
Interrupted(unit, at) ==
    IF at = "rmtree" THEN unit
    ELSE IF at = "makedirs" THEN NoUnit
    ELSE [exists |-> TRUE, files |-> {}]

\* dump(dump_path); the storage fails at the (written + 1)-th patient, in
\* the call `at`, when written < len(self.index)
Dump(dump_path, written, at) ==
    /\ call.op = "idle"
    /\ written \in 0..Len(index)
    /\ pre' = store
    /\ LET args == [dump_path |-> dump_path]
           bad == {i \in 1..Len(index) :
                      GetItemOutcome(StrKey(index[i])).status = "raise"}
           first == IF bad = {} THEN Len(index) + 1
                    ELSE CHOOSE i \in bad : \A j \in bad : i <= j
           n == Min(written, first - 1)
       IN  /\ disk' = [p \in DOMAIN disk |->
                         IF \E i \in 1..n : index[i] = p
                         THEN WriteUnit(disk[p],
                                        PackArray(GetItemOutcome(StrKey(p)).value))
                         ELSE IF written < first - 1 /\ written < Len(index)
                                 /\ index[written + 1] = p
                         THEN Interrupted(disk[p], at)
                         ELSE disk[p]]
           /\ IF first <= written \/ (first = written + 1 /\ first <= Len(index))
              THEN /\ ret' = Raise("dump", args,
                                   GetItemOutcome(StrKey(index[first])).exc)
                   /\ UNCHANGED history
              ELSE IF written < Len(index)
              THEN /\ ret' = Raise("dump", args, "OSError")
                   /\ UNCHANGED history
              ELSE /\ ret' = Ok("dump", args, Self)
                   /\ history' = Logged(history, "dump", args)
    /\ NoPool
    /\ UNCHANGED <<index, iters, data_id, data, lower_bounds, upper_bounds, patient_index_path,
                   patient_index_number, crop_centers, crop_sizes, call>>

\* ------------------------------------------------------------- behaviour
\* BatchCt.__init__(index)
Init ==
    /\ index \in {SubSeq(PatientIds, 1, n) : n \in 1..MaxPatients}
    /\ iters = <<>>
    /\ data = NoData
    /\ data_id = 0
    /\ upper_bounds = <<>>
    /\ lower_bounds = <<>>
    /\ patient_index_path = EmptyMap
    /\ patient_index_number = EmptyMap
    /\ crop_centers = <<>>
    /\ crop_sizes = <<>>
    /\ history = <<>>
    /\ disk = [p \in IndexSet |-> IF p = index[1] THEN StaleUnit ELSE NoUnit]
    /\ call = Idle
    /\ tasks = <<>>
    /\ res = <<>>
    /\ writers = <<>>
    /\ pre = store
    /\ ret = Ok("init", <<>>, Self)

\* the calls that log themselves are explored while history has fewer than
\* n entries
Room(n) == Len(history) < n

Next ==
    \/ \E m \in PathMaps, b \in BTypes,
          dec \in [1..Len(index) -> (0 - 1)..MaxSlices] :
          Room(MaxHistory) /\ Load(m, b, dec)
    \/ \E key \in Keys : GetItem(key)
    \/ \E zn \in 0..MaxSlicesNew, xy \in NewXY, t \in 1..MaxThreads, o \in Orders :
          Room(MaxHistory) /\ ResizeBegin(zn, xy, t, o)
    \/ ResizeEnd
    \/ \E e \in ErosionRadii, t \in 1..MaxThreads : GetFilterBegin(e, t)
    \/ GetFilterEnd
    \/ \E e \in ErosionRadii, t \in 1..MaxThreads :
          Room(MaxHistory) /\ SegmentBegin(e, t)
    \/ SegmentEnd
    \/ \E i \in 1..MaxPatients : TaskStart(i)
    \/ \E i \in 1..MaxPatients : TaskWrite(i)
    \/ \E i \in 1..MaxPatients : TaskFail(i)
    \/ \E i \in 1..MaxPatients : TaskCompute(i)
    \/ \E st \in XIPSteps, d \in XIPDepths, f \in XIPFuncs, t \in 1..MaxThreads :
          MakeXIPBegin(st, d, f, t)
    \/ MakeXIPEnd
    \/ \E which \in {"crop_centers", "crop_sizes"} : CropGet(which)
    \/ CropEnd
    \/ \E w \in 0..MaxPatients : Room(MaxHistory) /\ Dump("out", w, "rmtree")

Spec == Init /\ [][Next]_vars

\* iteration over a store that is loaded and resized meanwhile
NextIter ==
    \/ \E m \in PathMaps, b \in BTypes,
          dec \in [1..Len(index) -> (0 - 1)..MaxSlices] :
          Room(MaxHistory) /\ Load(m, b, dec)
    \/ \E zn \in 0..MaxSlicesNew, xy \in NewXY, t \in 1..MaxThreads, o \in Orders :
          Room(MaxHistory) /\ ResizeBegin(zn, xy, t, o)
    \/ ResizeEnd
    \/ \E i \in 1..MaxPatients : TaskStart(i)
    \/ \E i \in 1..MaxPatients : TaskWrite(i)
    \/ \E i \in 1..MaxPatients : TaskFail(i)
    \/ Iter
    \/ \E it \in 1..MaxIterators : IterNext(it)

SpecIter == Init /\ [][NextIter]_vars

\* load, resize and dump, with loads from the dumped files and every point
\* of failure of dump, for one call more than in Spec
NextIO ==
    \/ \E dec \in [1..Len(index) -> 0..MaxSlices] :
          Room(MaxHistoryIO) /\ Load(FullPaths, "dicom", dec)
    \/ \E b \in BTypes :
          Room(MaxHistoryIO) /\ Load(DumpedPaths, b, [i \in 1..Len(index) |-> 0])
    \/ \E zn \in 1..MaxSlicesNew, xy \in NewXY, o \in Orders :
          Room(MaxHistoryIO) /\ ResizeBegin(zn, xy, 1, o)
    \/ ResizeEnd
    \/ \E i \in 1..MaxPatients : TaskStart(i)
    \/ \E i \in 1..MaxPatients : TaskWrite(i)
    \/ \E i \in 1..MaxPatients : TaskFail(i)
    \/ \E w \in 0..MaxPatients, at \in DumpCalls :
          Room(MaxHistoryIO) /\ Dump("out", w, at)

SpecIO == Init /\ [][NextIO]_vars

\* ---------------------------------------------------------------- claims
PublicOps == {"load", "resize", "get_filter", "segment", "make_XIP", "dump"}

\* a public operation has returned normally and nothing is in progress
Returned(op) == call.op = "idle" /\ ret.op = op /\ ret.status = "ok"

\* the row range of the patient at 1-based position i
Width(i) == upper_bounds[i] - lower_bounds[i]

\* C1: whenever the store has at least one patient (bounds entry), in
\* particular after every successful load, resize, get_filter, segment,
\* make_XIP and dump, the bounds partition the buffer rows: lower[0] = 0,
\* upper[i] = lower[i+1], upper[last] = number of rows, the widths add up to
\* the number of rows, and there is one bounds entry per identifier.
C1_BoundsPartition ==
    len >= 1 =>
        /\ Len(upper_bounds) = len
        /\ lower_bounds[1] = 0
        /\ \A i \in 1..(len - 1) : upper_bounds[i] = lower_bounds[i + 1]
        /\ upper_bounds[len] = Len(data.rows)
        /\ SumSeq([i \in 1..len |-> Width(i)]) = Len(data.rows)
        /\ len = Len(index)

\* a resize of two patients of different lengths has returned and changed
\* the bounds
C1_Witness ==
    /\ Returned("resize")
    /\ len = 2
    /\ Len(data.rows) > 0
    /\ pre.upper[1] # pre.upper[2] - pre.upper[1]
    /\ pre.upper # upper_bounds

\* C2: after every public operation that returned normally, lower[i] <
\* upper[i] for every patient i, also when a decoder returned a scan of zero
\* slices and when resize was called with num_slices_new = 0.
C2_NonEmptyRanges ==
    (call.op = "idle" /\ ret.status = "ok" /\ ret.op \in PublicOps) =>
        \A i \in 1..len : lower_bounds[i] < upper_bounds[i]

\* C3: for every valid position i (0 <= i < patient count) self[i] and
\* self[self.index[i]] both succeed and return the same view, the rows
\* [lower[i], upper[i]); after a resize these are the rows [i*Zn, (i+1)*Zn).
C3_DualKeyLookup ==
    \A i \in 0..(len - 1) :
        LET byPos == GetItemOutcome(IntKey(i))
            byId == GetItemOutcome(StrKey(index[i + 1]))
        IN  /\ byPos.status = "ok"
            /\ byId.status = "ok"
            /\ byPos.value = byId.value
            /\ byId.value.lower = lower_bounds[i + 1]
            /\ byId.value.upper = upper_bounds[i + 1]
            /\ Returned("resize") =>
                   /\ byId.value.lower = i * ret.args.num_slices_new
                   /\ byId.value.upper = (i + 1) * ret.args.num_slices_new

\* after a resize, the second patient was fetched by its identifier
C3_Witness ==
    /\ Returned("getitem")
    /\ len = 2
    /\ ret.args.key = StrKey(index[2])
    /\ ret.value.rows # <<>>
    /\ \E k \in 1..Len(history) : history[k].method = "resize"

\* C4: after resize(Zn, Xn, Yn) on a store of N patients the buffer has shape
\* [N*Zn, Xn, Yn], lower[i] = i*Zn and upper[i] = (i+1)*Zn for every patient,
\* and the patient count is still N.
C4_ResizeUniform ==
    Returned("resize") =>
        LET N == Len(pre.lower)
            Zn == ret.args.num_slices_new
        IN  /\ len = N
            /\ Len(upper_bounds) = N
            /\ Len(data.rows) = N * Zn
            /\ data.x = ret.args.num_x_new
            /\ data.y = ret.args.num_y_new
            /\ \A i \in 1..N : /\ lower_bounds[i] = (i - 1) * Zn
                               /\ upper_bounds[i] = i * Zn

\* two patients of different lengths were resized to two slices each
C4_Witness ==
    /\ Returned("resize")
    /\ Len(pre.lower) = 2
    /\ pre.upper[1] # pre.upper[2] - pre.upper[1]
    /\ ret.args.num_slices_new = 2

\* the rows (1-based) of res that task i is given to write
DestRows(i) ==
    {call.targs[i].start_to + k : k \in 1..TaskRows(call.targs[i])}

\* C5: while resize or get_filter (also inside segment) runs its tasks, the
\* destination rows of the tasks are those fixed at dispatch (resize:
\* [i*Zn, (i+1)*Zn), get_filter: [lower[i], upper[i])), they are pairwise
\* disjoint, and no row of result_stacked is ever written by two tasks or
\* by a task it was not given to.
C5_DisjointWrites ==
    call.op \in {"resize", "get_filter", "segment"} =>
        /\ \A i \in 1..Len(tasks) :
              DestRows(i) =
                 IF call.fn = "resize_patient_numba"
                 THEN ((i - 1) * call.args.num_slices_new + 1)
                         ..(i * call.args.num_slices_new)
                 ELSE (lower_bounds[i] + 1)..upper_bounds[i]
        /\ \A i, j \in 1..Len(tasks) : i # j => DestRows(i) \cap DestRows(j) = {}
        /\ \A r \in 1..Len(writers) :
              /\ Cardinality(writers[r]) <= 1
              /\ \A i \in writers[r] : r \in DestRows(i)

\* two resize tasks run at the same time and each has written a row
C5_Witness ==
    /\ call.op = "resize"
    /\ Cardinality(Running(tasks)) = 2
    /\ \A i \in Running(tasks) : tasks[i].w >= 1

ParallelOps == {"resize", "get_filter", "segment", "make_XIP",
                "crop_centers", "crop_sizes"}

\* C6: when resize, get_filter, segment, make_XIP or the crop estimation has
\* returned or raised, none of the tasks it dispatched is pending or running.
C6_JoinBeforeReturn ==
    (ret.op \in ParallelOps /\ ret.status \in {"ok", "raise"}) =>
        \A i \in 1..Len(tasks) : tasks[i].st \notin {"pending", "running"}

\* a resize of two patients returned after one task finished and one failed
C6_Witness ==
    /\ Returned("resize")
    /\ Len(tasks) = 2
    /\ \E i, j \in 1..2 : tasks[i].st = "done" /\ tasks[j].st = "failed"

\* C7: when a task dispatched by resize, get_filter or segment has failed,
\* the operation raises; it does not return normally.
C7_TaskFailuresSurfaced ==
    (call.op = "idle" /\ ret.op \in {"resize", "get_filter", "segment"}
        /\ Failed(tasks) # {}) => ret.status = "raise"

\* the scan task i was given, as it was when the operation was called
InputSlab(i) == Slice(pre.data.rows, pre.lower[i], pre.upper[i])

\* C8: whatever the order in which the tasks complete, the rows of the
\* result that belong to position i hold the transform of the input
\* patient at position i, as soon as task i has completed: in
\* result_stacked while resize, get_filter and segment run, in the resized
\* store and the returned mask afterwards, and in the store make_XIP returns.
C8_OrderIndependence ==
    /\ (ret.op = "resize" /\ ret.status # "raise") =>
          \A i \in 1..Len(tasks) : tasks[i].st = "done" =>
              LET Zn == ret.args.num_slices_new
                  out == IF call.op = "idle" THEN data.rows ELSE res
              IN  Slice(out, (i - 1) * Zn, i * Zn)
                    = [k \in 1..Zn |-> Resample(InputSlab(i), Zn, k - 1)]
    /\ (ret.op \in {"get_filter", "segment"} /\ ret.status # "raise") =>
          \A i \in 1..Len(tasks) : tasks[i].st = "done" =>
              Slice(res, pre.lower[i], pre.upper[i])
                = [k \in 1..Len(InputSlab(i)) |->
                      LungMask(InputSlab(i)[k], ret.args.erosion_radius)]
    /\ Returned("make_XIP") =>
          /\ Len(ret.value.lower) = len
          /\ \A i \in 1..len :
                Slice(ret.value.rows, ret.value.lower[i], ret.value.upper[i])
                  = XIP(InputSlab(i), ret.args.step, ret.args.depth, ret.args.func)

\* the second patient's resize task has completed while the first one is
\* still writing
C8_Witness ==
    /\ call.op = "resize"
    /\ Len(tasks) = 2
    /\ tasks[2].st = "done"
    /\ tasks[2].w = 2
    /\ tasks[1].st = "running"
    /\ tasks[1].w = 1

\* C9: when load raises, the buffer, the bounds, both identifier maps and
\* the history are what they were before the call.
C9_LoadFailureAtomic ==
    (ret.op = "load" /\ ret.status = "raise") => store = pre

\* C10: self[i] for an integer i < 0 or i >= patient count raises IndexError
\* and self[s] for a string s that is no identifier of the store raises
\* KeyError; no view is returned, nothing wraps around, and the store is
\* unchanged.
C10_GetRejectsInvalidKeys ==
    (ret.op = "getitem" /\ ret.status # "called") =>
        LET key == ret.args.key IN
        /\ (key.kind = "int" /\ (key.v < 0 \/ key.v >= len)) =>
              (ret.status = "raise" /\ ret.exc = "IndexError"
                 /\ ret.value = <<>> /\ store = pre)
        /\ (key.kind = "str" /\ key.s \notin IndexSet) =>
              (ret.status = "raise" /\ ret.exc = "KeyError"
                 /\ ret.value = <<>> /\ store = pre)

\* position -1 was asked of a store of two loaded patients
C10_Witness ==
    /\ ret.op = "getitem"
    /\ ret.args.key = IntKey(0 - 1)
    /\ len = 2
    /\ Len(data.rows) > 0
    /\ ret.status = "raise"

\* C11: self[key] raises a type error for every key that is neither a
\* positional integer nor a string (a float, None, a bool, ...).
C11_OtherKeysTypeError ==
    (ret.op = "getitem" /\ ret.args.key.kind \notin {"int", "str"}) =>
        (ret.status = "raise" /\ ret.exc = "TypeError")

\* C12: after a successful segment every voxel is old * m + (1 - m) * -2000,
\* m in {0, 1} being the mask get_filter produced for that erosion radius on
\* the buffer as it was before segment: voxels under the mask keep their
\* value, all others are exactly -2000 (AIR_HU); voxels of patients whose
\* task completed have m = the lung mask of the old value.
C12_SegmentLaw ==
    Returned("segment") =>
        /\ Len(data.rows) = Len(pre.data.rows)
        /\ Len(res) = Len(data.rows)
        /\ \A r \in 1..Len(data.rows) :
              /\ res[r] \in {0, 1}
              /\ data.rows[r] = pre.data.rows[r] * res[r] + (1 - res[r]) * (-2000)
              /\ res[r] = 1 => data.rows[r] = pre.data.rows[r]
              /\ res[r] = 0 => data.rows[r] = AIR_HU
        /\ \A i \in 1..Len(tasks) : tasks[i].st = "done" =>
              \A r \in (pre.lower[i] + 1)..pre.upper[i] :
                  res[r] = LungMask(pre.data.rows[r], ret.args.erosion_radius)

\* a segment returned with voxels kept and voxels replaced by air
C12_Witness ==
    /\ Returned("segment")
    /\ \E r \in 1..Len(data.rows) : res[r] = 1 /\ data.rows[r] = pre.data.rows[r]
    /\ \E r \in 1..Len(data.rows) : res[r] = 0 /\ data.rows[r] = AIR_HU
                                       /\ pre.data.rows[r] # AIR_HU

\* C13: once an access of crop_centers or crop_sizes has computed the crop
\* arrays, every access of either property returns the cached array: it
\* does not dispatch the crop tasks again and it does not raise.
C13_CropMemoized ==
    (ret.op \in {"crop_centers", "crop_sizes"} /\ crop_centers # <<>>) =>
        /\ ret.status = "ok"
        /\ ret.value = IF ret.op = "crop_centers" THEN crop_centers ELSE crop_sizes

\* the number of slices the task of the patient at 1-based position i returned
OutCount(i) == Len(tasks[i].out)

\* C14: the store make_XIP returns has bounds computed from the per-patient
\* output slice counts alone: upper[i] is the running total of the counts of
\* the patients up to i in identifier order, lower[0] = 0 and lower[i] =
\* upper[i-1], so the ranges are contiguous and gapless, the buffer is the
\* outputs concatenated in identifier order and its row count is the sum of
\* the counts.
C14_XIPBounds ==
    Returned("make_XIP") =>
        LET v == ret.value
            n == Len(pre.lower)
        IN  /\ Len(v.lower) = n /\ Len(v.upper) = n /\ Len(tasks) = n
            /\ v.lower[1] = 0
            /\ \A i \in 1..n :
                  /\ v.upper[i] = SumSeq([j \in 1..i |-> OutCount(j)])
                  /\ v.upper[i] - v.lower[i] = OutCount(i)
                  /\ Slice(v.rows, v.lower[i], v.upper[i]) = tasks[i].out
            /\ \A i \in 1..(n - 1) : v.upper[i] = v.lower[i + 1]
            /\ Len(v.rows) = SumSeq([j \in 1..n |-> OutCount(j)])
            /\ v.upper[n] = Len(v.rows)

\* make_XIP returned for two patients whose output counts differ from each
\* other, and for two patients whose output counts differ from their inputs'
C14_Witness ==
    /\ Returned("make_XIP")
    /\ Len(tasks) = 2
    /\ \/ OutCount(1) # OutCount(2)
       \/ /\ ret.value.upper # pre.upper
          /\ OutCount(1) + OutCount(2) < Len(pre.data.rows)

\* the operations that log themselves, and the names they log
LoggingOps == {"load", "resize", "segment", "dump"}
MethodName(op) == IF op = "segment" THEN "segmentation" ELSE op

\* this step is the successful return of the public operation op
Completes(op) ==
    /\ call'.op = "idle" /\ ret'.op = op /\ ret'.status = "ok"
    /\ call.op = IF op \in {"load", "dump"} THEN "idle" ELSE op

\* h is h0 with exactly one entry appended
OneAppended(h0, h) == Len(h) = Len(h0) + 1 /\ SubSeq(h, 1, Len(h0)) = h0

\* C15 as stated: no step removes, reorders or changes a history entry;
\* each successful load, resize, segment and dump appends exactly one entry,
\* named 'load', 'resize', 'segmentation', 'dump', whose params are the
\* parameters of that call; nothing else appends.
C15_HistoryCallParams ==
    [][/\ \/ history' = history
          \/ OneAppended(history, history')
       /\ \A op \in LoggingOps : Completes(op) =>
             /\ OneAppended(history, history')
             /\ history'[Len(history')] =
                   [method |-> MethodName(op), params |-> ret'.args]
       /\ history' # history => \E op \in LoggingOps : Completes(op)]_vars

\* C15 (amended): no step removes, reorders or changes a history entry;
\* each successful load, resize, segment and dump appends exactly one entry,
\* named 'load', 'resize', 'segmentation', 'dump'; the entries of resize,
\* segment and dump hold the parameters of that call, the entry of load
\* holds no parameters; nothing else appends.
C15_HistoryAppendOnly ==
    [][/\ \/ history' = history
          \/ OneAppended(history, history')
       /\ \A op \in LoggingOps : Completes(op) =>
             /\ OneAppended(history, history')
             /\ history'[Len(history')] =
                   [method |-> MethodName(op),
                    params |-> IF op = "load" THEN <<>> ELSE ret'.args]
       /\ history' # history => \E op \in LoggingOps : Completes(op)]_vars

\* a load and then a resize have been logged, in call order
C15_Witness ==
    /\ Returned("resize")
    /\ Len(history) = 2
    /\ history[1] = [method |-> "load", params |-> <<>>]
    /\ history[2] = [method |-> "resize", params |-> ret.args]

\* C16: iteration is finite, ordered and restartable. An iterator made by
\* iter(self) starts at position 0; each next on it yields the view of the
\* rows [lower[k], upper[k]) of the patient at its position k, the same as
\* self[k], and moves it to k + 1; at k = len(self) it raises StopIteration,
\* so it yields len(self) views in position order; a next on one iterator
\* leaves every other iterator where it was, and nothing but next moves an
\* iterator.
C16_Iteration ==
    [][/\ \A it \in 1..Len(iters) :
             /\ iters'[it].patient_index <= Len(lower_bounds')
             /\ IF ret'.op = "next" /\ ret'.args.it = it
                THEN LET k == iters[it].patient_index IN
                     IF k < Len(lower_bounds)
                     THEN /\ ret'.status = "ok"
                          /\ ret'.value.lower = lower_bounds[k + 1]
                          /\ ret'.value.upper = upper_bounds[k + 1]
                          /\ ret'.value.rows =
                                Slice(data.rows, lower_bounds[k + 1], upper_bounds[k + 1])
                          /\ ret'.value = GetItemOutcome(IntKey(k)).value
                          /\ iters'[it].patient_index = k + 1
                     ELSE /\ ret'.status = "raise" /\ ret'.exc = "StopIteration"
                          /\ iters'[it] = iters[it]
                ELSE iters'[it] = iters[it]
       /\ Len(iters') >= Len(iters)
       /\ \A it \in (Len(iters) + 1)..Len(iters') : iters'[it].patient_index = 0]_vars

\* of two iterators over a loaded store of two patients the first has
\* yielded both views and stopped while the second has yielded one
C16_Witness ==
    /\ Len(lower_bounds) = 2
    /\ Len(iters) = 2
    /\ ret.op = "next" /\ ret.exc = "StopIteration" /\ ret.args.it = 1
    /\ iters[1].patient_index = 2
    /\ iters[2].patient_index = 1

\* C17: in every state from construction on, also before load has been
\* called, _patient_index_number has exactly the identifiers of index as
\* keys and maps index[i] to i, and every identifier has exactly one bounds
\* entry: there are as many bounds entries as identifiers.
C17_MapsNeverDrift ==
    /\ DOMAIN patient_index_number = IndexSet
    /\ \A i \in 1..Len(index) : patient_index_number[index[i]] = i - 1
    /\ Len(lower_bounds) = Len(index)
    /\ Len(upper_bounds) = Len(index)

\* the directory of identifier p holds exactly one file, data.blk, with the
\* blosc packing of the rows [lower, upper) of the buffer for p
FreshUnit(p) ==
    LET i == CHOOSE j \in 1..Len(index) : index[j] = p
        slab == Slice(data.rows, lower_bounds[i], upper_bounds[i])
    IN  /\ disk[p].exists
        /\ Cardinality(disk[p].files) = 1
        /\ \A f \in disk[p].files :
              /\ f.name = "data.blk"
              /\ f.content = pack_array(slab, data.x, data.y)

\* C18: dump is last-writer-wins. After a successful dump the directory of
\* every identifier exists and holds exactly one file, data.blk, the
\* encoding of that patient's current slab, whatever the directory held
\* before. Patients are written one at a time in the order of index: when
\* dump fails, the directories of the first n identifiers are rewritten, the
\* next one is as it was, removed or left empty, and the others are as they
\* were.
C18_DumpLastWriterWins ==
    ret.op = "dump" =>
        \E n \in 0..Len(index) :
            /\ \A i \in 1..n : FreshUnit(index[i])
            /\ \A i \in (n + 1)..Len(index) :
                  \/ disk[index[i]] = pre.disk[index[i]]
                  \/ i = n + 1 /\ disk[index[i]].files = {}
            /\ ret.status = "ok" => n = Len(index)
            /\ ret.status = "raise" => n < Len(index)

\* a dump of two patients returned; the directory of the first held another
\* file before and the directory of the second did not exist
C18_Witness ==
    /\ Returned("dump")
    /\ Len(index) = 2
    /\ pre.disk[index[1]] = StaleUnit
    /\ ~pre.disk[index[2]].exists
    /\ FreshUnit(index[1]) /\ FreshUnit(index[2])

\* a load from the files under dump_path has returned, and the call logged
\* before it is a dump: the files are those of the store as it was when
\* this load was called
Reloaded ==
    /\ Returned("load")
    /\ patient_index_path = DumpedPaths
    /\ Len(history) >= 2
    /\ history[Len(history) - 1].method = "dump"

\* C19: dump followed by load of the dumped files (btype 'blosc', same
\* identifiers) gives back the dumped store: the same number of patients,
\* the same bounds, the same slice shape and the same rows for every
\* patient; unpacking what was packed is the array that was packed.
C19_RoundTrip ==
    Reloaded =>
        /\ ret.args.btype = "blosc"
        /\ Len(lower_bounds) = Len(pre.lower)
        /\ lower_bounds = pre.lower
        /\ upper_bounds = pre.upper
        /\ data.x = pre.data.x /\ data.y = pre.data.y
        /\ data.rows = pre.data.rows
        /\ \A i \in 1..Len(index) :
              Slice(data.rows, lower_bounds[i], upper_bounds[i])
                = Slice(pre.data.rows, pre.lower[i], pre.upper[i])

\* a store of two patients, of two slices and of one, was loaded, dumped
\* and loaded back from the dumped files into a new buffer
C19_Witness ==
    /\ Reloaded
    /\ Len(index) = 2
    /\ history[1].method = "load"
    /\ data_id # pre.base
    /\ upper_bounds = <<2, 3>>
    /\ \A r \in 2..Len(data.rows) : data.rows[r] # data.rows[1]

\* C20: segment changes the buffer in place and nothing else: after a
\* successful segment the bounds, the path map and the identifier-to-position
\* map are as before, and _data is still bound to the array object it was
\* bound to before, the one that the views self[key] returned earlier are
\* views of, so that those views show the segmented values.
C20_SegmentInPlace ==
    (Returned("segment") /\ Len(pre.data.rows) >= 1) =>
        /\ lower_bounds = pre.lower
        /\ upper_bounds = pre.upper
        /\ patient_index_number = pre.number
        /\ patient_index_path = pre.path
        /\ data_id = pre.base

====
